---- MODULE Spec2Model ----
(***************************************************************************)
(* Model of the audio-guide generator's two orchestrators:                 *)
(*   - src/batch_runner.py : main -> validate_track_config -> run_batch    *)
(*                           -> run_single_file -> three stage calls       *)
(*   - src/main.py         : run_full_pipeline -> three stage calls        *)
(*                                                                         *)
(* One behaviour is one call of one entry point.  The program is single    *)
(* threaded; pc is the position of that thread.  A stage call is a         *)
(* blocking call: it is modelled by an invoke step and a completion step   *)
(* (return or raise) so that "in flight" is a visible state.               *)
(*                                                                         *)
(* The three stage functions themselves (info_retrieval.run,              *)
(* script_gen.run, audio_gen.run), the retried call of the audio stage     *)
(* (_generate_audio_gemini) and the path helpers of utils/path_sanitizer   *)
(* are modelled by a second specification, StageSpec: one behaviour of     *)
(* StageSpec is one call of one of these functions.                        *)
(*                                                                         *)
(* Python dicts are functions with a finite domain of key names; an absent *)
(* value (None / missing key) is the string "None" or the empty tuple.     *)
(***************************************************************************)
EXTENDS Integers, Sequences, FiniteSets, TLC

\* ------------------------------------------------------------------ bounds
MaxFiles == 3
MaxStagesLen == 3
\* StageSpec: largest max_retries / max_wait / initial_wait argument, largest
\* number of audio chunks of one response, longest keyword given to a path helper
MaxRetries == 3
MaxWait == 3
MaxInitialWait == 2
MaxChunks == 1
MaxKeywordLen == 4

\* --------------------------------------------------------------- dict helpers
Has(m, k) == k \in DOMAIN m
Get(m, k, d) == IF k \in DOMAIN m THEN m[k] ELSE d
\* dict.update(other): keys of other replace / extend those of base
update(base, other) == other @@ base
Range(s) == {s[i] : i \in 1..Len(s)}

\* ------------------------------------------------------------ input domains
EmptyDict == [k \in {} |-> "None"]
DryOpt == {"None", "True", "False"}
DryDict(o) == IF o = "None" THEN EmptyDict ELSE ("dry_run" :> (o = "True"))

\* defaults maps of a track file (a missing "defaults" key gives {} as well)
DefaultsSet ==
    {DryDict(o) : o \in DryOpt} \cup {("model" :> "A") @@ DryDict(o) : o \in DryOpt}

Required(n) == ("output_name" :> n) @@ ("keyword" :> "k")
\* entries of the "files" list: a dict (isdict) or a scalar YAML value
ValidEntries ==
    { [isdict |-> TRUE, kv |-> Required("a")],
      [isdict |-> TRUE, kv |-> Required("b") @@ ("dry_run" :> FALSE)],
      [isdict |-> TRUE, kv |-> Required("c") @@ ("dry_run" :> TRUE) @@ ("model" :> "B")],
      [isdict |-> TRUE, kv |-> Required("d") @@ ("model" :> "B")] }
InvalidEntries ==
    { [isdict |-> TRUE, kv |-> ("keyword" :> "k")],
      [isdict |-> TRUE, kv |-> ("output_name" :> "e")],
      [isdict |-> FALSE, kv |-> EmptyDict] }
Entries == ValidEntries \cup InvalidEntries
FileLists == UNION {[1..n -> Entries] : n \in 0..MaxFiles}

\* track_config as loaded from YAML: files_kind says whether the "files" key is
\* missing, a scalar (not a list), or a list
TrackConfigs ==
    { [has_track_name |-> t, files_kind |-> fk, files |-> fl, defaults |-> d] :
        t \in BOOLEAN, fk \in {"missing", "scalar"}, fl \in {<< >>}, d \in DefaultsSet }
    \cup
    { [has_track_name |-> t, files_kind |-> "list", files |-> fl, defaults |-> d] :
        t \in BOOLEAN, fl \in FileLists, d \in DefaultsSet }

\* messages of the errors a stage can raise
Msgs == {"e1", "e2"}
StageNums == 1..3

\* ------------------------------------------------------------------ state
VARIABLES
    entry,          \* entry point called: "main" | "run_batch" | "run_full_pipeline"
    stage_impl,     \* what info_retrieval/script_gen/audio_gen are bound to
    pc,             \* control position
    track_config,   \* run_batch argument (as loaded)
    override,       \* run_batch argument override_dry_run: "None" | "True" | "False"
    defaults,       \* run_batch local: defaults map (after the override)
    files,          \* run_batch local: the files list
    idx,            \* run_batch loop index (1-based, 0 before the loop)
    file_config,    \* merged config of the current item
    result,         \* run_single_file local: the RunRecord being built
    results,        \* run_batch local: list of RunRecords / run_full_pipeline: result keys
    stage,          \* stage being processed (1..3), 0 when none
    block,          \* run_full_pipeline: which of its three if-blocks is next
    calls,          \* log of stage invocations, in order
    dirs,           \* directories created by this run
    disk,           \* artifact files written by this run
    report,         \* content of batch_report.json
    reportWrites,   \* number of times batch_report.json was written in this run
    exc,            \* exception in flight / delivered to the caller
    ret,            \* value returned to the caller
    outcome,        \* "none" | "returned" | "raised"
    stages,         \* run_full_pipeline argument
    dry_run,        \* run_full_pipeline argument
    output_name,    \* run_full_pipeline argument ("None" when not given)
    \* ---- state of one call of a stage function (StageSpec)
    fn,             \* the function called
    args,           \* its arguments
    env,            \* what it finds: credential, upstream artifact, prompt template
    spc,            \* control position inside the function
    tries,          \* backoff: number of tries of the retried call so far
    attempts,       \* log of the external API calls made, with their outcome
    waits,          \* backoff: the delays computed and slept between tries
    credChecks,     \* number of API-credential lookups (os.getenv of the key)
    made,           \* directories created by the function
    written,        \* files written by the function
    raised,         \* exception that leaves the function
    returned,       \* path the function returns
    paths           \* path helper: the paths resolved so far

stageVars == << fn, args, env, spc, tries, attempts, waits, credChecks, made, written,
                raised, returned, paths >>
stageInputs == << fn, args, env >>

vars == << entry, stage_impl, pc, track_config, override, defaults, files, idx,
           file_config, result, results, stage, block, calls, dirs, disk, report,
           reportWrites, exc, ret, outcome, stages, dry_run, output_name, stageVars >>

\* the variables of the orchestrator model, which a stage-function step leaves
\* alone
orchVars == << entry, stage_impl, pc, track_config, override, defaults, files, idx,
               file_config, result, results, stage, block, calls, dirs, disk, report,
               reportWrites, exc, ret, outcome, stages, dry_run, output_name >>

batchVars == << track_config, override, defaults, files, idx, file_config, result,
                report, reportWrites >>
pipeVars == << stages, dry_run, output_name >>
\* (and the stage-function state, which no orchestrator step touches)
inputVars == << entry, stage_impl, track_config, override, stages, dry_run, output_name,
                stageVars >>
\* inputs plus the position in run_full_pipeline, which batch steps leave alone
fixedInBatch == << inputVars, block >>

\* ------------------------------------------------------------------ values
NoExc == [kind |-> "None", message |-> "None", file_name |-> "None", stage |-> "None"]
NoRecord == [output_name |-> "None", keyword |-> "None", status |-> "None",
             error |-> "None", audio_path |-> << >>, completed_at |-> "None"]
NoReport == [total_files |-> 0, successful |-> 0, failed |-> 0, files |-> << >>]
NoRet == [has |-> FALSE, paths |-> EmptyDict, successful |-> 0, failed |-> 0, total |-> 0]

StageKey(s) == CASE s = 1 -> "info" [] s = 2 -> "script" [] s = 3 -> "audio"

\* class BatchRunnerError(message, file_name, stage)
BatchRunnerError(message, file_name, stg) ==
    [kind |-> "BatchRunnerError", message |-> message, file_name |-> file_name,
     stage |-> stg]

\* Variant of PipelineError with the two constructor arguments exchanged
PipelineErrorSwapped(stg, message) ==
    [kind |-> "PipelineError", message |-> stg, file_name |-> "None", stage |-> message]

\* class PipelineError(stage, message)
PipelineError(stg, message) ==
    [kind |-> "PipelineError", message |-> message, file_name |-> "None", stage |-> stg]

\* an exception of a builtin kind (KeyError, TypeError) raised by the interpreter
BuiltinError(kind, message) ==
    [kind |-> kind, message |-> message, file_name |-> "None", stage |-> "None"]


\* ------------------------------------------------------ the three stages
\* parameters of info_retrieval.run
InfoRunParams ==
    {"keyword", "output_dir", "model", "prompt_version", "dry_run", "output_name"}
\* parameters of script_gen.run (it has no output_name)
ScriptRunParams ==
    {"keyword", "info_dir", "output_dir", "prompt_version", "dry_run", "temperature",
     "model"}
\* parameters of audio_gen.run
AudioRunParams ==
    {"keyword", "script_dir", "output_dir", "voice", "model", "speed", "max_retries",
     "initial_wait", "max_wait", "dry_run", "output_name"}

RunParams(s) ==
    CASE s = 1 -> InfoRunParams [] s = 2 -> ScriptRunParams [] s = 3 -> AudioRunParams

\* keyword arguments passed by run_single_file to each stage
BatchCallKw(s) ==
    CASE s = 1 -> {"keyword", "model", "output_dir", "dry_run", "output_name"}
      [] s = 2 -> {"keyword", "info_dir", "output_dir", "prompt_version", "temperature",
                   "model", "dry_run", "output_name"}
      [] s = 3 -> {"keyword", "script_dir", "output_dir", "voice", "model", "speed",
                   "max_retries", "dry_run", "output_name"}

\* keyword arguments passed by run_full_pipeline to each stage
PipelineCallKw(s) ==
    CASE s = 1 -> {"keyword", "model", "dry_run", "output_name"}
      [] s = 2 -> {"keyword", "prompt_version", "temperature", "model", "dry_run",
                   "output_name"}
      [] s = 3 -> {"keyword", "voice", "model", "speed", "max_retries", "dry_run",
                   "output_name"}

\* positional parameters of info_markdown_path / script_markdown_path /
\* audio_output_path: (keyword, base_dir)
PathHelperParams == 2

\* positional arguments with which each run() calls the path helpers:
\* info_retrieval.run and audio_gen.run pass (keyword, dir, output_name),
\* script_gen.run passes (keyword, dir)
InfoPathArgs == 3
ScriptPathArgs == 2
AudioPathArgs == 3
PathHelperArgs(s) ==
    CASE s = 1 -> InfoPathArgs [] s = 2 -> ScriptPathArgs [] s = 3 -> AudioPathArgs

UnexpectedKeyword == "TypeError: unexpected keyword argument"
TooManyPositional == "TypeError: takes 2 positional arguments but 3 were given"

\* the call binds its arguments (no TypeError at the call itself)
Binds(kw, s) == stage_impl = "compatible" \/ kw \subseteq RunParams(s)

\* the stage can return its artifact path.  With the repository's own modules
\* a call returns only if it binds and the path helper accepts the arguments
\* run() gives it; a signature-compatible module can always return.
MayReturn(kw, s) ==
    \/ stage_impl = "compatible"
    \/ kw \subseteq RunParams(s) /\ PathHelperArgs(s) = PathHelperParams

\* messages of the exceptions the call can raise
MayRaise(kw, s, dry) ==
    IF stage_impl = "compatible" THEN Msgs
    ELSE IF ~(kw \subseteq RunParams(s)) THEN {UnexpectedKeyword}
    ELSE IF PathHelperArgs(s) # PathHelperParams
         THEN \* info_retrieval.run obtains the content (the external call, when
              \* not dry_run) before it resolves the path; audio_gen.run and
              \* script_gen.run resolve the paths first
              {TooManyPositional} \cup (IF s = 1 /\ ~dry THEN Msgs ELSE {})
    ELSE Msgs

\* the artifact a stage writes: stage key and file stem (output_name or keyword)
Artifact(s, stem) == << StageKey(s), stem >>

\* one entry of the invocation log: the stage called, for which batch item
\* (0 in run_full_pipeline), with which dry_run and output_name arguments
NewCall(item, s, dry, name) ==
    [item |-> item, stage |-> s, dry_run |-> dry, output_name |-> name,
     outcome |-> "running", error |-> "None"]
Complete(log, oc, err) ==
    [log EXCEPT ![Len(log)].outcome = oc, ![Len(log)].error = err]

\* ------------------------------------------------------- batch_runner.py
\* Variant of validate_track_config without the check for an empty files list
validate_without_empty_check(config) ==
    IF ~config.has_track_name THEN "track_name"
    ELSE IF config.files_kind # "list" THEN "files"
    ELSE LET bad == {i \in 1..Len(config.files) :
                        \/ ~config.files[i].isdict
                        \/ ~Has(config.files[i].kv, "output_name")
                        \/ ~Has(config.files[i].kv, "keyword")}
         IN IF bad = {} THEN "ok" ELSE "entry"

\* validate_track_config: "ok" or the field the BatchRunnerError names
validate_track_config(config) ==
    IF ~config.has_track_name THEN "track_name"
    ELSE IF config.files_kind # "list" THEN "files"
    ELSE IF Len(config.files) = 0 THEN "empty"
    ELSE LET bad == {i \in 1..Len(config.files) :
                        \/ ~config.files[i].isdict
                        \/ ~Has(config.files[i].kv, "output_name")
                        \/ ~Has(config.files[i].kv, "keyword")}
         IN IF bad = {} THEN "ok"
            ELSE LET i == CHOOSE j \in bad : \A k \in bad : j <= k
                 IN IF ~config.files[i].isdict THEN "not_dict"
                    ELSE IF ~Has(config.files[i].kv, "output_name") THEN "output_name"
                    ELSE "keyword"

\* create_track_directories: the four directories made under outputs/tracks
create_track_directories == {"track_root", "track/info", "track/script", "track/audio"}

\* Variant of merge_file_config in which the defaults win on a conflict:
\* merged = file_config.copy(); merged.update(defaults)
merge_defaults_win(fc, dflt) ==
    [ret |-> update(fc, dflt), file_config |-> fc, defaults |-> dflt]

\* merge_file_config: merged = defaults.copy(); merged.update(file_config).
\* The result also gives the two argument objects as the call leaves them.
merge_file_config(fc, dflt) ==
    LET copied == dflt
        merged == update(copied, fc)
    IN [ret |-> merged, file_config |-> fc, defaults |-> dflt]

\* Variant of append_result: results.insert(0, result)
insert_result_first(rs, r) == << r >> \o rs

\* results.append(result)
append_result(rs, r) == Append(rs, r)

Count(recs, st) == Cardinality({i \in 1..Len(recs) : recs[i].status = st})

\* Variant of generate_batch_report that takes total_files from the
\* configured file list
report_with_configured_total(recs) ==
    [total_files |-> Len(files), successful |-> Count(recs, "success"),
     failed |-> Count(recs, "failed"), files |-> recs]

\* generate_batch_report: the report object written to batch_report.json
generate_batch_report(recs) ==
    [total_files |-> Len(recs), successful |-> Count(recs, "success"),
     failed |-> Count(recs, "failed"), files |-> recs]

\* an exception leaves the entry point: nothing is returned
Propagate(e) ==
    /\ exc' = e
    /\ outcome' = "raised"
    /\ pc' = "done"


\* ------------------------------------------- values of the stage functions
\* a str is a sequence of characters
Chars == {"a", " ", "/", "?"}
Keywords == UNION {[1..n -> Chars] : n \in 0..MaxKeywordLen}
\* keywords given to the run() functions: an ordinary one and a blank one
RunKeywords == {<< "a" >>, << " " >>}

StageFns == {"info_retrieval.run", "script_gen.run", "audio_gen.run",
             "_generate_audio_gemini", "path_helper"}

\* an exception raised inside a stage function; cause is the __cause__ of a
\* "raise ... from e" (and the error its message quotes)
Raised(kind, message, cause) == [kind |-> kind, message |-> message, cause |-> cause]
NoRaise == Raised("None", "None", "None")
\* a path: directory and file name (a str)
PathOf(dir, name) == [dir |-> dir, name |-> name]
NoPath == PathOf("None", << >>)
NoArgs == [keyword |-> << >>, base_dir |-> "None", helper |-> 0, dry_run |-> FALSE,
           max_retries |-> 1, initial_wait |-> 1, max_wait |-> 1,
           voice |-> "Zephyr", model |-> "gemini-2.5-pro-preview-tts"]
NoEnv == [credential |-> FALSE, upstream |-> "absent", prompt |-> FALSE]

\* exceptions the external services can raise from a call
ApiErrors == {"RateLimitError", "ServerError"}

\* the stage-function state while an orchestrator entry point runs
StageIdle ==
    /\ fn = "None"
    /\ args = NoArgs
    /\ env = NoEnv
    /\ spc = "idle"
    /\ tries = 0
    /\ attempts = << >>
    /\ waits = << >>
    /\ credChecks = 0
    /\ made = {}
    /\ written = {}
    /\ raised = NoRaise
    /\ returned = NoPath
    /\ paths = << >>

\* ------------------------------------------------------------------ Init
Init ==
    /\ StageIdle
    /\ entry \in {"main", "run_batch", "run_full_pipeline"}
    /\ stage_impl \in {"repository", "compatible"}
    /\ IF entry = "run_full_pipeline"
       THEN /\ track_config = [has_track_name |-> FALSE, files_kind |-> "missing",
                               files |-> << >>, defaults |-> EmptyDict]
            /\ override = "None"
            /\ stages \in UNION {[1..n -> 1..4] : n \in 0..MaxStagesLen}
            /\ dry_run \in BOOLEAN
            /\ output_name \in {"None", "x"}
            /\ pc = "p_block"
       ELSE /\ track_config \in TrackConfigs
            \* batch_runner.main passes args.dry_run if args.dry_run else None
            /\ override \in (IF entry = "main" THEN {"None", "True"} ELSE DryOpt)
            /\ stages = << >>
            /\ dry_run = FALSE
            /\ output_name = "None"
            /\ pc = IF entry = "main" THEN "main" ELSE "run_batch"
    /\ stage = 0
    /\ block = 1
    /\ defaults = EmptyDict
    /\ files = << >>
    /\ idx = 0
    /\ file_config = EmptyDict
    /\ result = NoRecord
    /\ results = << >>
    /\ calls = << >>
    /\ dirs = {}
    /\ disk = {}
    /\ report = NoReport
    /\ reportWrites = 0
    /\ exc = NoExc
    /\ ret = NoRet
    /\ outcome = "none"

\* ------------------------------------------------ batch_runner.py actions
\* main: validate_track_config(track_config), then run_batch
MainValidate ==
    /\ pc = "main"
    /\ LET v == validate_track_config(track_config)
       IN IF v = "ok"
          THEN /\ pc' = "run_batch"
               /\ UNCHANGED << exc, outcome >>
          ELSE Propagate(BatchRunnerError(v, "None", "None"))
    /\ UNCHANGED << fixedInBatch, defaults, files, idx, file_config, result, results,
                    stage, calls, dirs, disk, report, reportWrites, ret >>

\* run_batch, up to total_files = len(files)
RunBatchEnter ==
    /\ pc = "run_batch"
    /\ IF ~track_config.has_track_name
       THEN /\ Propagate(BuiltinError("KeyError", "track_name"))
            /\ UNCHANGED << defaults, files >>
       ELSE IF track_config.files_kind = "missing"
       THEN /\ Propagate(BuiltinError("KeyError", "files"))
            /\ UNCHANGED << defaults, files >>
       ELSE /\ defaults' = IF override = "None" THEN track_config.defaults
                           ELSE update(track_config.defaults,
                                       "dry_run" :> (override = "True"))
            /\ files' = track_config.files
            /\ IF track_config.files_kind = "scalar"
               THEN Propagate(BuiltinError("TypeError", "len"))
               ELSE /\ pc' = "mkdirs"
                    /\ UNCHANGED << exc, outcome >>
    /\ UNCHANGED << fixedInBatch, idx, file_config, result, results, stage, calls, dirs,
                    disk, report, reportWrites, ret >>

\* run_batch: track_dirs = create_track_directories(track_name); results = []
RunBatchMkdirs ==
    /\ pc = "mkdirs"
    /\ dirs' = dirs \cup create_track_directories
    /\ results' = << >>
    /\ pc' = "loop"
    /\ UNCHANGED << fixedInBatch, defaults, files, idx, file_config, result, stage, calls,
                    disk, report, reportWrites, exc, ret, outcome >>

\* Variant of RunBatchLoop that keeps looping once the list is exhausted
RunBatchLoopNeverExits ==
    /\ pc = "loop"
    /\ IF idx < Len(files)
       THEN /\ idx' = idx + 1
            /\ IF files[idx + 1].isdict
               THEN LET m == merge_file_config(files[idx + 1].kv, defaults)
                    IN /\ file_config' = m.ret
                       /\ defaults' = m.defaults
                       /\ files' = [files EXCEPT ![idx + 1].kv = m.file_config]
                       /\ pc' = "single"
                       /\ UNCHANGED << exc, outcome >>
               ELSE \* dict.update(scalar) raises TypeError, which the handler
                    \* for BatchRunnerError does not catch
                    /\ Propagate(BuiltinError("TypeError", "update"))
                    /\ UNCHANGED << file_config, defaults, files >>
       ELSE /\ pc' = "loop"
            /\ UNCHANGED << idx, file_config, defaults, files, exc, outcome >>
    /\ UNCHANGED << fixedInBatch, result, results, stage, calls, dirs, disk, report,
                    reportWrites, ret >>

\* run_batch: the for statement takes the next entry and merges it with the
\* defaults, or leaves the loop when the list is exhausted
RunBatchLoop ==
    /\ pc = "loop"
    /\ IF idx < Len(files)
       THEN /\ idx' = idx + 1
            /\ IF files[idx + 1].isdict
               THEN LET m == merge_file_config(files[idx + 1].kv, defaults)
                    IN /\ file_config' = m.ret
                       /\ defaults' = m.defaults
                       /\ files' = [files EXCEPT ![idx + 1].kv = m.file_config]
                       /\ pc' = "single"
                       /\ UNCHANGED << exc, outcome >>
               ELSE \* dict.update(scalar) raises TypeError, which the handler
                    \* for BatchRunnerError does not catch
                    /\ Propagate(BuiltinError("TypeError", "update"))
                    /\ UNCHANGED << file_config, defaults, files >>
       ELSE /\ pc' = "final_report"
            /\ UNCHANGED << idx, file_config, defaults, files, exc, outcome >>
    /\ UNCHANGED << fixedInBatch, result, results, stage, calls, dirs, disk, report,
                    reportWrites, ret >>

\* run_single_file, before its try block: read the required keys, build the
\* pending record
RunSingleFileEnter ==
    /\ pc = "single"
    /\ IF ~Has(file_config, "output_name")
       THEN /\ Propagate(BuiltinError("KeyError", "output_name"))
            /\ UNCHANGED << result, stage >>
       ELSE IF ~Has(file_config, "keyword")
       THEN /\ Propagate(BuiltinError("KeyError", "keyword"))
            /\ UNCHANGED << result, stage >>
       ELSE /\ result' = [output_name |-> file_config["output_name"],
                          keyword |-> file_config["keyword"],
                          status |-> "pending", error |-> "None",
                          audio_path |-> << >>, completed_at |-> "None"]
            /\ stage' = 1
            /\ pc' = "invoke"
            /\ UNCHANGED << exc, outcome >>
    /\ UNCHANGED << fixedInBatch, defaults, files, idx, file_config, results, calls, dirs,
                    disk, report, reportWrites, ret >>

\* run_single_file: the call of info_retrieval.run / script_gen.run / audio_gen.run
\* with dry_run = file_config.get("dry_run", False)
BatchStageInvoke ==
    /\ pc = "invoke"
    /\ calls' = Append(calls, NewCall(idx, stage, Get(file_config, "dry_run", FALSE),
                                      result.output_name))
    /\ pc' = "instage"
    /\ UNCHANGED << fixedInBatch, defaults, files, idx, file_config, result, results,
                    stage, dirs, disk, report, reportWrites, exc, ret, outcome >>

\* the stage returns its artifact path; after the audio stage the record
\* becomes a success record
BatchStageReturn ==
    /\ pc = "instage"
    /\ MayReturn(BatchCallKw(stage), stage)
    /\ calls' = Complete(calls, "returned", "None")
    /\ disk' = disk \cup {Artifact(stage, result.output_name)}
    /\ IF stage < 3
       THEN /\ stage' = stage + 1
            /\ pc' = "invoke"
            /\ UNCHANGED result
       ELSE /\ result' = [result EXCEPT !.status = "success",
                                        !.audio_path = Artifact(3, result.output_name),
                                        !.completed_at = "set"]
            /\ stage' = 0
            /\ pc' = "append"
    /\ UNCHANGED << fixedInBatch, defaults, files, idx, file_config, results, dirs,
                    report, reportWrites, exc, ret, outcome >>

\* Variant of BatchStageRaise whose handler leaves the record as it is
BatchStageRaiseUnmarked ==
    /\ pc = "instage"
    /\ \E m \in MayRaise(BatchCallKw(stage), stage, Get(file_config, "dry_run", FALSE)) :
          /\ calls' = Complete(calls, "raised", m)
          /\ exc' = BuiltinError("Exception", m)
    /\ pc' = "single_raise"
    /\ UNCHANGED << fixedInBatch, defaults, files, idx, file_config, result, results,
                    stage, dirs, disk, report, reportWrites, ret, outcome >>

\* the stage raises: control enters "except Exception as e" of run_single_file,
\* which marks the record failed
BatchStageRaise ==
    /\ pc = "instage"
    /\ \E m \in MayRaise(BatchCallKw(stage), stage, Get(file_config, "dry_run", FALSE)) :
          /\ calls' = Complete(calls, "raised", m)
          /\ result' = [result EXCEPT !.status = "failed", !.error = m,
                                      !.completed_at = "set"]
          /\ exc' = BuiltinError("Exception", m)
    /\ pc' = "single_raise"
    /\ UNCHANGED << fixedInBatch, defaults, files, idx, file_config, results, stage, dirs,
                    disk, report, reportWrites, ret, outcome >>

\* Variant of RunSingleFileRaise with continue-on-error semantics: the failed
\* record is returned to run_batch instead of raising.
RunSingleFileReturnFailed ==
    /\ pc = "single_raise"
    /\ exc' = NoExc
    /\ stage' = 0
    /\ pc' = "append"
    /\ UNCHANGED << fixedInBatch, defaults, files, idx, file_config, result, results,
                    calls, dirs, disk, report, reportWrites, ret, outcome >>

\* run_single_file: raise BatchRunnerError(...) from e.  The frame of
\* run_single_file is left, and its local record with it.
RunSingleFileRaise ==
    /\ pc = "single_raise"
    /\ exc' = BatchRunnerError(exc.message, result.output_name, "pipeline")
    /\ result' = NoRecord
    /\ stage' = 0
    /\ pc' = "batch_except"
    /\ UNCHANGED << fixedInBatch, defaults, files, idx, file_config, results, calls, dirs,
                    disk, report, reportWrites, ret, outcome >>

\* run_single_file returns the record; run_batch appends it
RunBatchAppend ==
    /\ pc = "append"
    /\ results' = append_result(results, result)
    /\ result' = NoRecord
    /\ pc' = "loop"
    /\ UNCHANGED << fixedInBatch, defaults, files, idx, file_config, stage, calls, dirs,
                    disk, report, reportWrites, exc, ret, outcome >>

\* Variant of RunBatchExcept that re-raises without writing the report.
RunBatchExceptNoReport ==
    /\ pc = "batch_except"
    /\ pc' = "reraise"
    /\ UNCHANGED << fixedInBatch, defaults, files, idx, file_config, result, results,
                    stage, calls, dirs, disk, report, reportWrites, exc, ret, outcome >>

\* run_batch, except BatchRunnerError: write the partial report
RunBatchExcept ==
    /\ pc = "batch_except"
    /\ report' = generate_batch_report(results)
    /\ reportWrites' = reportWrites + 1
    /\ pc' = "reraise"
    /\ UNCHANGED << fixedInBatch, defaults, files, idx, file_config, result, results,
                    stage, calls, dirs, disk, exc, ret, outcome >>

\* run_batch, except BatchRunnerError: raise
RunBatchReraise ==
    /\ pc = "reraise"
    /\ Propagate(exc)
    /\ UNCHANGED << fixedInBatch, defaults, files, idx, file_config, result, results,
                    stage, calls, dirs, disk, report, reportWrites, ret >>

\* run_batch after the loop: write the report
RunBatchFinalReport ==
    /\ pc = "final_report"
    /\ report' = generate_batch_report(results)
    /\ reportWrites' = reportWrites + 1
    /\ pc' = "return"
    /\ UNCHANGED << fixedInBatch, defaults, files, idx, file_config, result, results,
                    stage, calls, dirs, disk, exc, ret, outcome >>

\* run_batch: return the summary
RunBatchReturn ==
    /\ pc = "return"
    /\ ret' = [has |-> TRUE, paths |-> EmptyDict, successful |-> Count(results, "success"),
               failed |-> Count(results, "failed"), total |-> Len(files)]
    /\ outcome' = "returned"
    /\ pc' = "done"
    /\ UNCHANGED << fixedInBatch, defaults, files, idx, file_config, result, results,
                    stage, calls, dirs, disk, report, reportWrites, exc >>


\* ------------------------------------------------------- main.py actions
\* stage names given to PipelineError (the source uses the Korean names
\* of the three stages)
StageName(s) ==
    CASE s = 1 -> "info retrieval" [] s = 2 -> "script generation"
      [] s = 3 -> "audio generation"

\* Variant of StageAtBlock that walks the stages argument in its own order
StageAtBlockListOrder(n, stgs) ==
    IF n <= Len(stgs) /\ stgs[n] \in 1..3 THEN stgs[n] ELSE 0

\* the stage the n-th if-block of run_full_pipeline runs ("if n in stages"),
\* 0 when the block is skipped
StageAtBlock(n, stgs) == IF n \in Range(stgs) THEN n ELSE 0

\* default output directory a stage creates when called without output_dir
DefaultOutputDir(s, dry) ==
    CASE s = 1 -> IF dry THEN "outputs/mock/info" ELSE "outputs/info"
      [] s = 2 -> "outputs/script"
      [] s = 3 -> IF dry THEN "outputs/mock/audio" ELSE "outputs/audio"

\* file stem of the artifacts: output_name if given, else the keyword
Stem == IF output_name = "None" THEN "k" ELSE output_name

AfterBlock ==
    IF block < 3
    THEN /\ block' = block + 1
         /\ pc' = "p_block"
    ELSE /\ block' = 4
         /\ pc' = "p_return"

\* run_full_pipeline: "if n in stages:" of the current block
PipelineBlock ==
    /\ pc = "p_block"
    /\ IF StageAtBlock(block, stages) # 0
       THEN /\ stage' = StageAtBlock(block, stages)
            /\ pc' = "p_invoke"
            /\ UNCHANGED block
       ELSE /\ AfterBlock
            /\ UNCHANGED stage
    /\ UNCHANGED << inputVars, batchVars, results, calls, dirs, disk, exc, ret, outcome >>

\* the call of the stage's run()
PipelineStageInvoke ==
    /\ pc = "p_invoke"
    /\ calls' = Append(calls, NewCall(0, stage, dry_run, output_name))
    /\ pc' = "p_instage"
    /\ UNCHANGED << inputVars, batchVars, results, stage, block, dirs, disk, exc, ret,
                    outcome >>

\* the stage returns: results[key] = path
PipelineStageReturn ==
    /\ pc = "p_instage"
    /\ MayReturn(PipelineCallKw(stage), stage)
    /\ calls' = Complete(calls, "returned", "None")
    /\ dirs' = dirs \cup {DefaultOutputDir(stage, dry_run)}
    /\ disk' = disk \cup {Artifact(stage, Stem)}
    /\ results' = (StageKey(stage) :> Artifact(stage, Stem)) @@ results
    /\ stage' = 0
    /\ AfterBlock
    /\ UNCHANGED << inputVars, batchVars, exc, ret, outcome >>

\* Variant of PipelineStageRaise that returns the paths collected so far
\* instead of raising
PipelineStageRaiseReturnsPartial ==
    /\ pc = "p_instage"
    /\ \E m \in MayRaise(PipelineCallKw(stage), stage, dry_run) :
          calls' = Complete(calls, "raised", m)
    /\ ret' = [has |-> TRUE, paths |-> results, successful |-> 0, failed |-> 0,
               total |-> 0]
    /\ outcome' = "returned"
    /\ pc' = "done"
    /\ UNCHANGED << inputVars, batchVars, results, stage, block, dirs, disk, exc >>

\* the stage raises: except Exception as e: raise PipelineError(name, str(e))
PipelineStageRaise ==
    /\ pc = "p_instage"
    /\ \E m \in MayRaise(PipelineCallKw(stage), stage, dry_run) :
          /\ calls' = Complete(calls, "raised", m)
          /\ Propagate(PipelineError(StageName(stage), m))
    /\ dirs' = IF Binds(PipelineCallKw(stage), stage)
               THEN dirs \cup {DefaultOutputDir(stage, dry_run)} ELSE dirs
    /\ UNCHANGED << inputVars, batchVars, results, stage, block, disk, ret >>

\* return results
PipelineReturn ==
    /\ pc = "p_return"
    /\ ret' = [has |-> TRUE, paths |-> results, successful |-> 0, failed |-> 0,
               total |-> 0]
    /\ outcome' = "returned"
    /\ pc' = "done"
    /\ UNCHANGED << inputVars, batchVars, results, stage, block, calls, dirs, disk, exc >>

Next ==
    \/ MainValidate
    \/ RunBatchEnter
    \/ RunBatchMkdirs
    \/ RunBatchLoop
    \/ RunSingleFileEnter
    \/ BatchStageInvoke
    \/ BatchStageReturn
    \/ BatchStageRaise
    \/ RunSingleFileRaise
    \/ RunBatchAppend
    \/ RunBatchExcept
    \/ RunBatchReraise
    \/ RunBatchFinalReport
    \/ RunBatchReturn
    \/ PipelineBlock
    \/ PipelineStageInvoke
    \/ PipelineStageReturn
    \/ PipelineStageRaise
    \/ PipelineReturn

Spec == Init /\ [][Next]_vars


\* ======================================================================
\* The stage functions (StageSpec)
\* ======================================================================
\* the orchestrator state while a stage function is called on its own
OrchIdle ==
    /\ entry = "stage"
    /\ pc = "idle"
    /\ track_config = [has_track_name |-> FALSE, files_kind |-> "missing",
                       files |-> << >>, defaults |-> EmptyDict]
    /\ override = "None"
    /\ stages = << >>
    /\ dry_run = FALSE
    /\ output_name = "None"
    /\ stage = 0
    /\ block = 1
    /\ defaults = EmptyDict
    /\ files = << >>
    /\ idx = 0
    /\ file_config = EmptyDict
    /\ result = NoRecord
    /\ results = << >>
    /\ calls = << >>
    /\ dirs = {}
    /\ disk = {}
    /\ report = NoReport
    /\ reportWrites = 0
    /\ exc = NoExc
    /\ ret = NoRet
    /\ outcome = "none"

\* voice and model arguments of the audio functions: the defaults, and a name
\* no provider knows
Voices == {"Zephyr", "NoSuchVoice"}
TtsModels == {"gemini-2.5-pro-preview-tts", "no-such-model"}

\* arguments and environment of one call, per function.  Arguments a function
\* does not have, and parts of the environment it never looks at, are pinned.
ArgsOf(f) ==
    CASE f = "path_helper" ->
           [keyword : Keywords, base_dir : {"d1", "d2"}, helper : 1..3,
            dry_run : {FALSE}, max_retries : {1}, initial_wait : {1}, max_wait : {1},
            voice : {"Zephyr"}, model : {"gemini-2.5-pro-preview-tts"}]
      [] f = "info_retrieval.run" ->
           [keyword : RunKeywords, base_dir : {"None"}, helper : {0},
            dry_run : BOOLEAN, max_retries : {1}, initial_wait : {1}, max_wait : {1},
            voice : {"Zephyr"}, model : {"gemini-2.5-pro-preview-tts"}]
      [] f = "script_gen.run" ->
           [keyword : {<< "a" >>}, base_dir : {"None"}, helper : {0},
            dry_run : BOOLEAN, max_retries : {1}, initial_wait : {1}, max_wait : {1},
            voice : {"Zephyr"}, model : {"gemini-2.5-pro-preview-tts"}]
      [] f = "audio_gen.run" ->
           [keyword : {<< "a" >>}, base_dir : {"None"}, helper : {0},
            dry_run : BOOLEAN, max_retries : 1..MaxRetries,
            initial_wait : 1..MaxInitialWait, max_wait : 1..MaxWait,
            voice : Voices, model : TtsModels]
      [] f = "_generate_audio_gemini" ->
           [keyword : {<< "a" >>}, base_dir : {"None"}, helper : {0},
            dry_run : {FALSE}, max_retries : 1..MaxRetries,
            initial_wait : 1..MaxInitialWait, max_wait : 1..MaxWait,
            voice : Voices, model : TtsModels]

EnvOf(f) ==
    CASE f = "path_helper" -> {NoEnv}
      [] f = "info_retrieval.run" ->
           [credential : BOOLEAN, upstream : {"absent"}, prompt : BOOLEAN]
      [] f = "script_gen.run" ->
           [credential : BOOLEAN, upstream : {"absent", "empty", "present"},
            prompt : BOOLEAN]
      [] f = "audio_gen.run" ->
           [credential : BOOLEAN, upstream : {"absent", "empty", "present"},
            prompt : {TRUE}]
      [] f = "_generate_audio_gemini" ->
           [credential : BOOLEAN, upstream : {"present"}, prompt : {TRUE}]

\* only info_retrieval.run and audio_gen.run call the path helpers with three
\* arguments, so only they depend on what the helpers accept
ImplOf(f) ==
    IF f \in {"info_retrieval.run", "audio_gen.run"}
    THEN {"repository", "compatible"} ELSE {"repository"}

StageInit ==
    /\ OrchIdle
    /\ fn \in StageFns
    /\ stage_impl \in ImplOf(fn)
    /\ args \in ArgsOf(fn)
    /\ env \in EnvOf(fn)
    /\ spc = "enter"
    /\ tries = 0
    /\ attempts = << >>
    /\ waits = << >>
    /\ credChecks = 0
    /\ made = {}
    /\ written = {}
    /\ raised = NoRaise
    /\ returned = NoPath
    /\ paths = << >>

\* ---------------------------------------------- utils/path_sanitizer.py
INVALID_FILENAME_CHARS == {"<", ">", ":", "\"", "/", "\\", "|", "?", "*"}

IsSpace(c) == c = " "
RECURSIVE lstrip(_)
lstrip(str) == IF str # << >> /\ IsSpace(Head(str)) THEN lstrip(Tail(str)) ELSE str
RECURSIVE rstrip(_)
rstrip(str) ==
    IF str # << >> /\ IsSpace(str[Len(str)])
    THEN rstrip(SubSeq(str, 1, Len(str) - 1)) ELSE str
\* str.strip()
strip(str) == rstrip(lstrip(str))
\* str.replace(char, "") for every char of a set
remove_chars(str, cs) == SelectSeq(str, LAMBDA c : c \notin cs)

\* Variant of sanitize_keyword_for_path that removes the blanks as well
sanitize_removing_blanks(keyword) ==
    remove_chars(strip(keyword), INVALID_FILENAME_CHARS \cup {" "})

\* sanitize_keyword_for_path: strip(), then drop every invalid character
sanitize_keyword_for_path(keyword) ==
    LET sanitized == strip(keyword)
    IN remove_chars(sanitized, INVALID_FILENAME_CHARS)

MdSuffix == << ".", "m", "d" >>
ScriptSuffix == << "_", "s", "c", "r", "i", "p", "t", ".", "m", "d" >>
Mp3Suffix == << ".", "m", "p", "3" >>

info_markdown_path(keyword, base_dir) ==
    PathOf(base_dir, sanitize_keyword_for_path(keyword) \o MdSuffix)
script_markdown_path(keyword, base_dir) ==
    PathOf(base_dir, sanitize_keyword_for_path(keyword) \o ScriptSuffix)
audio_output_path(keyword, base_dir) ==
    PathOf(base_dir, sanitize_keyword_for_path(keyword) \o Mp3Suffix)

\* the helper of stage s
HelperPath(s, keyword, base_dir) ==
    CASE s = 1 -> info_markdown_path(keyword, base_dir)
      [] s = 2 -> script_markdown_path(keyword, base_dir)
      [] s = 3 -> audio_output_path(keyword, base_dir)

\* one call of a path helper (the entry "path_helper" makes the same call twice)
ResolvePath ==
    /\ fn = "path_helper"
    /\ spc \in {"enter", "again"}
    /\ paths' = Append(paths, HelperPath(args.helper, args.keyword, args.base_dir))
    /\ spc' = IF spc = "enter" THEN "again" ELSE "done"
    /\ UNCHANGED << orchVars, stageInputs, tries, attempts, waits, credChecks, made,
                    written, raised, returned >>


\* ------------------------------------------------ shared by the stages
\* a file on disk: the artifact at a path, or its ".metadata.json" sidecar;
\* chunks is the number of audio chunks joined into an audio artifact
File(path, kind, chunks) == [path |-> path, kind |-> kind, chunks |-> chunks]
\* one external API call and how it ended: the exception it raised ("None" if
\* none) and the number of chunks with inline data its response carried
Attempt(error, chunks) == [error |-> error, chunks |-> chunks]

\* an exception leaves the stage function
StageRaise(e) ==
    /\ raised' = e
    /\ spc' = "done"
    /\ UNCHANGED returned
\* the stage function returns
StageReturn(path) ==
    /\ returned' = path
    /\ spc' = "done"
    /\ UNCHANGED raised

\* create_metadata inside try/except: the sidecar is written, or the failure
\* to write it is logged and swallowed
WithMetadata(path) == {{File(path, "metadata", 0)}, {}}

\* ------------------------------------------- pipelines/info_retrieval.py
InfoDir(dry) == IF dry THEN "outputs/mock/info" ELSE "outputs/info"

\* run, up to the choice between mock data and _search_with_llm
InfoRunEnter ==
    /\ fn = "info_retrieval.run"
    /\ spc = "enter"
    /\ IF strip(args.keyword) = << >>
       THEN /\ StageRaise(Raised("ValueError", "keyword is empty", "None"))
            /\ UNCHANGED made
       ELSE /\ made' = made \cup {InfoDir(args.dry_run)}
            /\ spc' = IF args.dry_run THEN "info_path" ELSE "info_key"
            /\ UNCHANGED << raised, returned >>
    /\ UNCHANGED << orchVars, stageInputs, tries, attempts, waits, credChecks, written,
                    paths >>

\* Variant of ValidateApiKey that goes on without the key
ValidateApiKeyUnchecked ==
    /\ spc = "info_key"
    /\ credChecks' = credChecks + 1
    /\ spc' = "info_prompt"
    /\ UNCHANGED << raised, returned >>
    /\ UNCHANGED << orchVars, stageInputs, tries, attempts, waits, made, written, paths >>

\* _search_with_llm: api_key = _validate_api_key()
ValidateApiKey ==
    /\ spc = "info_key"
    /\ credChecks' = credChecks + 1
    /\ IF ~env.credential
       THEN StageRaise(Raised("ValueError", "OPENAI_API_KEY is not set", "None"))
       ELSE /\ spc' = "info_prompt"
            /\ UNCHANGED << raised, returned >>
    /\ UNCHANGED << orchVars, stageInputs, tries, attempts, waits, made, written, paths >>

\* _search_with_llm: load_prompt(version, pipeline_type="info_retrieval")
InfoLoadPrompt ==
    /\ spc = "info_prompt"
    /\ IF ~env.prompt
       THEN StageRaise(Raised("FileNotFoundError", "prompt template", "None"))
       ELSE /\ spc' = "info_call"
            /\ UNCHANGED << raised, returned >>
    /\ UNCHANGED << orchVars, stageInputs, tries, attempts, waits, credChecks, made,
                    written, paths >>

\* Variant of InfoCallApi that calls again after a failed call while fewer than
\* MaxRetries calls were made
InfoCallApiRetrying ==
    /\ spc = "info_call"
    /\ \E e \in ApiErrors \cup {"None"} :
          /\ attempts' = Append(attempts, Attempt(e, 0))
          /\ IF e = "None"
             THEN /\ spc' = "info_path"
                  /\ UNCHANGED << raised, returned >>
             ELSE IF Len(attempts) + 1 < MaxRetries
             THEN UNCHANGED << spc, raised, returned >>
             ELSE StageRaise(Raised(e, e, "None"))
    /\ UNCHANGED << orchVars, stageInputs, tries, waits, credChecks, made, written,
                    paths >>

\* _search_with_llm: client.responses.create(...), called once; an exception
\* is logged and re-raised as it is
InfoCallApi ==
    /\ spc = "info_call"
    /\ \E e \in ApiErrors \cup {"None"} :
          /\ attempts' = Append(attempts, Attempt(e, 0))
          /\ IF e = "None"
             THEN /\ spc' = "info_path"
                  /\ UNCHANGED << raised, returned >>
             ELSE StageRaise(Raised(e, e, "None"))
    /\ UNCHANGED << orchVars, stageInputs, tries, waits, credChecks, made, written,
                    paths >>

\* run: output_path = info_markdown_path(keyword, output_dir, output_name)
InfoResolvePath ==
    /\ spc = "info_path"
    /\ IF stage_impl = "repository" /\ InfoPathArgs # PathHelperParams
       THEN /\ StageRaise(Raised("TypeError", TooManyPositional, "None"))
            /\ UNCHANGED paths
       ELSE /\ paths' = << info_markdown_path(strip(args.keyword),
                                              InfoDir(args.dry_run)) >>
            /\ spc' = "info_write"
            /\ UNCHANGED << raised, returned >>
    /\ UNCHANGED << orchVars, stageInputs, tries, attempts, waits, credChecks, made,
                    written >>

\* Variant of InfoWrite in which a failure of create_metadata is not caught
InfoWriteMetadataRaises ==
    /\ spc = "info_write"
    /\ \/ /\ written' = written \cup {File(paths[1], "artifact", 0),
                                        File(paths[1], "metadata", 0)}
          /\ StageReturn(paths[1])
       \/ /\ written' = written \cup {File(paths[1], "artifact", 0)}
          /\ StageRaise(Raised("OSError", "metadata", "None"))
    /\ UNCHANGED << orchVars, stageInputs, tries, attempts, waits, credChecks, made,
                    paths >>

\* run: write_text, create_metadata (its failure is caught and logged),
\* return output_path.absolute()
InfoWrite ==
    /\ spc = "info_write"
    /\ \E meta \in WithMetadata(paths[1]) :
          written' = written \cup {File(paths[1], "artifact", 0)} \cup meta
    /\ StageReturn(paths[1])
    /\ UNCHANGED << orchVars, stageInputs, tries, attempts, waits, credChecks, made,
                    paths >>

\* ----------------------------------------------- pipelines/script_gen.py
\* run, up to the two path helper calls (each with two arguments)
ScriptRunEnter ==
    /\ fn = "script_gen.run"
    /\ spc = "enter"
    /\ made' = made \cup {"outputs/script"}
    /\ paths' = << info_markdown_path(args.keyword, "outputs/info"),
                   script_markdown_path(args.keyword, "outputs/script") >>
    /\ spc' = "script_prompt"
    /\ UNCHANGED << orchVars, stageInputs, tries, attempts, waits, credChecks, written,
                    raised, returned >>

\* Variant of ScriptLoadPrompt that takes the production path in dry_run too
ScriptLoadPromptIgnoringDryRun ==
    /\ spc = "script_prompt"
    /\ IF ~env.prompt
       THEN StageRaise(Raised("FileNotFoundError", "prompt template", "None"))
       ELSE /\ spc' = "script_upstream"
            /\ UNCHANGED << raised, returned >>
    /\ UNCHANGED << orchVars, stageInputs, tries, attempts, waits, credChecks, made,
                    written, paths >>

\* run: load_prompt(prompt_version), before the dry_run branch
ScriptLoadPrompt ==
    /\ spc = "script_prompt"
    /\ IF ~env.prompt
       THEN StageRaise(Raised("FileNotFoundError", "prompt template", "None"))
       ELSE /\ spc' = IF args.dry_run THEN "script_dry" ELSE "script_upstream"
            /\ UNCHANGED << raised, returned >>
    /\ UNCHANGED << orchVars, stageInputs, tries, attempts, waits, credChecks, made,
                    written, paths >>

\* run, "if dry_run:": write the fixed script and return (no sidecar)
ScriptDryRun ==
    /\ spc = "script_dry"
    /\ written' = written \cup {File(paths[2], "artifact", 0)}
    /\ StageReturn(paths[2])
    /\ UNCHANGED << orchVars, stageInputs, tries, attempts, waits, credChecks, made,
                    paths >>

\* run: "if not info_file.exists()", then the file is read
ScriptCheckInfo ==
    /\ spc = "script_upstream"
    /\ IF env.upstream = "absent"
       THEN StageRaise(Raised("FileNotFoundError", "info file", "None"))
       ELSE /\ spc' = "script_key"
            /\ UNCHANGED << raised, returned >>
    /\ UNCHANGED << orchVars, stageInputs, tries, attempts, waits, credChecks, made,
                    written, paths >>

\* run: api_key = os.getenv("OPENAI_API_KEY"); "if not api_key"
ScriptCheckKey ==
    /\ spc = "script_key"
    /\ credChecks' = credChecks + 1
    /\ IF ~env.credential
       THEN StageRaise(Raised("ValueError", "OPENAI_API_KEY is not set", "None"))
       ELSE /\ spc' = "script_call"
            /\ UNCHANGED << raised, returned >>
    /\ UNCHANGED << orchVars, stageInputs, tries, attempts, waits, made, written, paths >>

\* run: client.chat.completions.create(...), called once; an exception is
\* wrapped: raise Exception(error_msg) from e
ScriptCallApi ==
    /\ spc = "script_call"
    /\ \E e \in ApiErrors \cup {"None"} :
          /\ attempts' = Append(attempts, Attempt(e, 0))
          /\ IF e = "None"
             THEN /\ spc' = "script_write"
                  /\ UNCHANGED << raised, returned >>
             ELSE StageRaise(Raised("Exception", "LLM call failed", e))
    /\ UNCHANGED << orchVars, stageInputs, tries, waits, credChecks, made, written,
                    paths >>

\* run: write the script and return output_file
ScriptWrite ==
    /\ spc = "script_write"
    /\ written' = written \cup {File(paths[2], "artifact", 0)}
    /\ StageReturn(paths[2])
    /\ UNCHANGED << orchVars, stageInputs, tries, attempts, waits, credChecks, made,
                    paths >>


\* ------------------------------------------------ pipelines/audio_gen.py
AudioDir(dry) == IF dry THEN "outputs/mock/audio" ELSE "outputs/audio"
ScriptDir(dry) == IF dry THEN "outputs/mock/script" ELSE "outputs/script"
\* the output_path argument of _generate_audio_gemini
OutputPath == audio_output_path(args.keyword, AudioDir(args.dry_run))

\* run, up to the path helper calls (each with three arguments)
AudioRunEnter ==
    /\ fn = "audio_gen.run"
    /\ spc = "enter"
    /\ made' = made \cup {AudioDir(args.dry_run)}
    /\ IF stage_impl = "repository" /\ AudioPathArgs # PathHelperParams
       THEN /\ StageRaise(Raised("TypeError", TooManyPositional, "None"))
            /\ UNCHANGED paths
       ELSE /\ paths' = << script_markdown_path(args.keyword, ScriptDir(args.dry_run)),
                           OutputPath >>
            /\ spc' = "audio_read"
            /\ UNCHANGED << raised, returned >>
    /\ UNCHANGED << orchVars, stageInputs, tries, attempts, waits, credChecks, written >>

\* _read_script(script_path), called before the dry_run branch
ReadScript ==
    /\ spc = "audio_read"
    /\ IF env.upstream = "absent"
       THEN StageRaise(Raised("FileNotFoundError", "script file", "None"))
       ELSE IF env.upstream = "empty"
       THEN StageRaise(Raised("ValueError", "script file is empty", "None"))
       ELSE /\ spc' = IF args.dry_run THEN "audio_dry" ELSE "gen_key"
            /\ UNCHANGED << raised, returned >>
    /\ UNCHANGED << orchVars, stageInputs, tries, attempts, waits, credChecks, made,
                    written, paths >>

\* run, "if dry_run:": _create_dummy_audio, create_metadata, return
AudioDryRun ==
    /\ spc = "audio_dry"
    /\ \E meta \in WithMetadata(paths[2]) :
          written' = written \cup {File(paths[2], "artifact", 0)} \cup meta
    /\ StageReturn(paths[2])
    /\ UNCHANGED << orchVars, stageInputs, tries, attempts, waits, credChecks, made,
                    paths >>

\* _generate_audio_gemini: api_key = os.getenv("GEMINI_API_KEY"); "if not api_key"
GenerateAudioCheckKey ==
    /\ \/ fn = "_generate_audio_gemini" /\ spc = "enter"
       \/ spc = "gen_key"
    /\ credChecks' = credChecks + 1
    /\ IF ~env.credential
       THEN StageRaise(Raised("ValueError", "GEMINI_API_KEY is not set", "None"))
       ELSE /\ spc' = "gen_client"
            /\ UNCHANGED << raised, returned >>
    /\ UNCHANGED << orchVars, stageInputs, tries, attempts, waits, made, written, paths >>

\* _generate_audio_gemini: client = genai.Client(api_key=api_key); a failure
\* to construct the client is logged and re-raised
GenerateAudioClient ==
    /\ spc = "gen_client"
    /\ \/ /\ spc' = "gen_call"
          /\ UNCHANGED << raised, returned >>
       \/ StageRaise(Raised("ClientError", "client construction failed", "None"))
    /\ UNCHANGED << orchVars, stageInputs, tries, attempts, waits, credChecks, made,
                    written, paths >>

\* Variant of no_audio_chunks that accepts an empty response
never_empty(chunks) == FALSE

\* _call_api_with_backoff: "if not audio_chunks"
no_audio_chunks(chunks) == chunks = 0

\* Variant of CallApiWithBackoff that opens the output file before the
\* streaming call and writes the chunks as they arrive
CallApiWritingAsItStreams ==
    /\ spc = "gen_call"
    /\ tries' = tries + 1
    /\ \E e \in ApiErrors \cup {"None"} : \E n \in 0..MaxChunks :
          /\ e # "None" => n = 0
          /\ attempts' = Append(attempts, Attempt(e, n))
          /\ written' = written \cup {File(OutputPath, "artifact", n)}
          /\ IF e # "None"
             THEN /\ raised' = Raised(e, e, "None")
                  /\ spc' = "gen_except"
             ELSE IF no_audio_chunks(n)
             THEN /\ raised' = Raised("Exception", "no audio data received", "None")
                  /\ spc' = "gen_except"
             ELSE /\ spc' = IF fn = "audio_gen.run" THEN "audio_meta" ELSE "done"
                  /\ UNCHANGED raised
    /\ UNCHANGED << orchVars, stageInputs, waits, credChecks, made, returned, paths >>

\* one try of _call_api_with_backoff under backoff.on_exception: the streaming
\* call raises, or ends with some number of chunks that carried inline data; with
\* no chunk the try raises Exception, otherwise the joined chunks are written
CallApiWithBackoff ==
    /\ spc = "gen_call"
    /\ tries' = tries + 1
    /\ \E e \in ApiErrors \cup {"None"} : \E n \in 0..MaxChunks :
          /\ e # "None" => n = 0
          /\ attempts' = Append(attempts, Attempt(e, n))
          /\ IF e # "None"
             THEN /\ raised' = Raised(e, e, "None")
                  /\ spc' = "gen_except"
                  /\ UNCHANGED written
             ELSE IF no_audio_chunks(n)
             THEN /\ raised' = Raised("Exception", "no audio data received", "None")
                  /\ spc' = "gen_except"
                  /\ UNCHANGED written
             ELSE /\ written' = written \cup {File(OutputPath, "artifact", n)}
                  /\ spc' = IF fn = "audio_gen.run" THEN "audio_meta" ELSE "done"
                  /\ UNCHANGED raised
    /\ UNCHANGED << orchVars, stageInputs, waits, credChecks, made, returned, paths >>

\* backoff.expo (base 2, factor 1): the n-th value of the wait generator,
\* n = 0, 1, ..., capped by max_value
ExpoBase == 2
ExpoFactor == 1
\* Variant of expo without the cap
expo_uncapped(n, max_value) == ExpoFactor * ExpoBase ^ n

expo(n, max_value) ==
    LET a == ExpoFactor * ExpoBase ^ n
    IN IF a < max_value THEN a ELSE max_value

\* backoff.full_jitter(value): random.uniform(0, value)
full_jitter(value) == 0..value

\* Variant of max_tries_exceeded that allows one more try
max_tries_exceeded_late(t, max_tries) == t = max_tries + 1

\* backoff: max_tries_exceeded = (tries == max_tries)
max_tries_exceeded(t, max_tries) == t = max_tries

\* backoff gives up (max_tries=max_retries): the last exception is re-raised
\* and _generate_audio_gemini wraps it: raise Exception(...) from e
BackoffGiveUp ==
    /\ spc = "gen_except"
    /\ max_tries_exceeded(tries, args.max_retries)
    /\ StageRaise(Raised("Exception", "Gemini TTS failed", raised.kind))
    /\ UNCHANGED << orchVars, stageInputs, tries, attempts, waits, credChecks, made,
                    written, paths >>

\* backoff retries: seconds = jitter(next value of the wait generator), then
\* time.sleep(seconds) and the next try
BackoffWait ==
    /\ spc = "gen_except"
    /\ ~max_tries_exceeded(tries, args.max_retries)
    /\ LET value == expo(Len(waits), args.max_wait)
       IN \E seconds \in full_jitter(value) :
             waits' = Append(waits, [value |-> value, seconds |-> seconds])
    /\ raised' = NoRaise
    /\ spc' = "gen_call"
    /\ UNCHANGED << orchVars, stageInputs, tries, attempts, credChecks, made, written,
                    returned, paths >>

\* run, after _generate_audio_gemini: create_metadata, return
AudioRunReturn ==
    /\ spc = "audio_meta"
    /\ \E meta \in WithMetadata(paths[2]) : written' = written \cup meta
    /\ StageReturn(paths[2])
    /\ UNCHANGED << orchVars, stageInputs, tries, attempts, waits, credChecks, made,
                    paths >>

StageNext ==
    \/ ResolvePath
    \/ InfoRunEnter
    \/ ValidateApiKey
    \/ InfoLoadPrompt
    \/ InfoCallApi
    \/ InfoResolvePath
    \/ InfoWrite
    \/ ScriptRunEnter
    \/ ScriptLoadPrompt
    \/ ScriptDryRun
    \/ ScriptCheckInfo
    \/ ScriptCheckKey
    \/ ScriptCallApi
    \/ ScriptWrite
    \/ AudioRunEnter
    \/ ReadScript
    \/ AudioDryRun
    \/ GenerateAudioCheckKey
    \/ GenerateAudioClient
    \/ CallApiWithBackoff
    \/ BackoffGiveUp
    \/ BackoffWait
    \/ AudioRunReturn

StageSpec == StageInit /\ [][StageNext]_vars


\* ======================================================================
\* Properties
\* ======================================================================
IsBatch == entry \in {"main", "run_batch"}
IsPipeline == entry = "run_full_pipeline"
CallIdx == 1..Len(calls)

\* run_batch ended by re-raising the BatchRunnerError of a failed item
ItemFailureRaised ==
    /\ IsBatch
    /\ outcome = "raised"
    /\ exc.kind = "BatchRunnerError"
    /\ exc.stage = "pipeline"

\* C1: fail-fast batch.  Once a stage call made for item k has raised (the
\* pipeline of item k failed), no stage is invoked for any item after k.
C1_FailFast ==
    IsBatch =>
        \A i \in CallIdx : \A j \in CallIdx :
            (i < j /\ calls[i].outcome = "raised") => calls[j].item <= calls[i].item

\* item 1 of a three-item list failed and the run is over
C1_Witness ==
    /\ ItemFailureRaised
    /\ pc = "done"
    /\ Len(files) = 3
    /\ idx = 1
    /\ calls[Len(calls)].outcome = "raised"

\* C2: when item k fails after items 1..k-1 succeeded, the report written by
\* run_batch holds exactly k records in list order: k-1 success records, then
\* one failed record carrying the error message; its failed count is 1.
C2_ReportHoldsFailedRecord ==
    (ItemFailureRaised /\ pc = "done") =>
        /\ Len(report.files) = idx
        /\ \A i \in 1..(idx - 1) : report.files[i].status = "success"
        /\ report.files[idx].status = "failed"
        /\ report.files[idx].error = exc.message
        /\ report.failed = 1

\* C3: whenever run_batch ends by returning its summary or by re-raising an
\* item's failure, batch_report.json was written earlier in the same run: the
\* step that returns or re-raises starts from a state where the report is
\* already on disk.
C3_ReportBeforeEnd ==
    [][ ( /\ IsBatch
          /\ outcome = "none"
          /\ \/ outcome' = "returned"
             \/ outcome' = "raised" /\ exc'.kind = "BatchRunnerError"
                                    /\ exc'.stage = "pipeline" )
        => reportWrites >= 1 ]_vars

\* the failure of item 2 was re-raised after the partial report was written
C3_Witness ==
    /\ ItemFailureRaised
    /\ pc = "done"
    /\ idx = 2
    /\ reportWrites = 1

\* C4: entries are processed one at a time in list order.  In the invocation
\* log every call but the last has finished, items never go backwards, the
\* stages of one item go forwards, each call carries the output_name of the
\* entry at its item's position; and the i-th record of the report is the
\* record of the i-th entry of the configured list.
C4_ListOrder ==
    IsBatch =>
        /\ \A i \in CallIdx : i < Len(calls) => calls[i].outcome # "running"
        /\ \A i \in CallIdx : \A j \in CallIdx :
              i < j => \/ calls[i].item < calls[j].item
                       \/ calls[i].item = calls[j].item /\ calls[i].stage < calls[j].stage
        /\ \A i \in CallIdx :
              /\ calls[i].item \in 1..Len(track_config.files)
              /\ calls[i].output_name = track_config.files[calls[i].item].kv["output_name"]
        /\ Len(report.files) <= Len(track_config.files)
        /\ \A i \in 1..Len(report.files) :
              report.files[i].output_name = track_config.files[i].kv["output_name"]

\* a completed run over three entries, the first two with different names
C4_Witness ==
    /\ IsBatch
    /\ outcome = "returned"
    /\ Len(report.files) = 3
    /\ Len(calls) = 9
    /\ report.files[1].output_name # report.files[2].output_name


\* C5: with a non-null override_dry_run, every stage call of every item gets
\* dry_run = override_dry_run, whatever the defaults or the entry say.
C5_OverrideForcesDryRun ==
    (IsBatch /\ stage_impl = "repository" /\ override # "None") =>
        \A i \in CallIdx : calls[i].dry_run = (override = "True")

\* C6: the step that merges an entry with the defaults yields a map whose keys
\* are the union of both key sets, with the entry's value for every key of the
\* entry and the defaults' value for every other key, and it leaves the
\* defaults map and the files list (hence the entry) as they were.
C6_MergeShallowOverride ==
    [][ (pc = "loop" /\ pc' = "single") =>
          LET fc == files[idx'].kv
              d == defaults
          IN /\ DOMAIN file_config' = DOMAIN fc \cup DOMAIN d
             /\ \A k \in DOMAIN file_config' :
                   file_config'[k] = IF k \in DOMAIN fc THEN fc[k] ELSE d[k]
             /\ defaults' = defaults
             /\ files' = files ]_vars

\* a merge where entry and defaults disagree on dry_run and only the defaults
\* have a model
C6_Witness ==
    /\ pc = "single"
    /\ LET fc == track_config.files[idx].kv
       IN /\ Has(fc, "dry_run") /\ Has(defaults, "dry_run")
          /\ fc["dry_run"] # defaults["dry_run"]
          /\ Has(defaults, "model") /\ ~Has(fc, "model")
          /\ file_config["dry_run"] = fc["dry_run"]
          /\ file_config["model"] = "A"

\* the structural defects of a track configuration listed by the claim
StructurallyInvalid(cfg) ==
    \/ ~cfg.has_track_name
    \/ cfg.files_kind # "list"
    \/ Len(cfg.files) = 0
    \/ \E i \in 1..Len(cfg.files) :
          ~Has(cfg.files[i].kv, "output_name") \/ ~Has(cfg.files[i].kv, "keyword")

NoSideEffect ==
    /\ dirs = {}
    /\ calls = << >>
    /\ disk = {}
    /\ reportWrites = 0

\* C7 as stated: run_batch, called with a structurally invalid configuration,
\* creates no directory, invokes no stage, writes no file and does not return.
C7_RunBatchValidates ==
    (entry = "run_batch" /\ stage_impl = "repository"
        /\ StructurallyInvalid(track_config)) =>
        (NoSideEffect /\ outcome # "returned")

\* C7 amended: batch_runner.main validates before it calls run_batch.  With a
\* structurally invalid configuration main never enters run_batch, has no
\* side effect, and ends with the BatchRunnerError of validate_track_config.
C7_MainValidates ==
    (entry = "main" /\ StructurallyInvalid(track_config)) =>
        /\ pc \in {"main", "done"}
        /\ NoSideEffect
        /\ pc = "done" => (outcome = "raised" /\ exc.kind = "BatchRunnerError"
                                              /\ exc.stage = "None")

\* main rejected a list whose second entry lacks its keyword
C7_Witness ==
    /\ entry = "main"
    /\ pc = "done"
    /\ track_config.has_track_name
    /\ Len(track_config.files) >= 2
    /\ Has(track_config.files[2].kv, "output_name")
    /\ ~Has(track_config.files[2].kv, "keyword")
    /\ exc = BatchRunnerError("keyword", "None", "None")

Selected == Range(stages) \cap 1..3

\* C8: run_full_pipeline invokes only stages that are in the stages argument,
\* in strictly ascending order (so each at most once), and invokes a stage only
\* after every smaller selected stage was invoked and returned, whatever the
\* order or multiplicity of the numbers in stages.
C8_AscendingStages ==
    IsPipeline =>
        /\ \A i \in CallIdx : calls[i].stage \in Selected
        /\ \A i \in CallIdx : \A j \in CallIdx :
              i < j => calls[i].stage < calls[j].stage
        /\ \A i \in CallIdx : \A t \in Selected :
              t < calls[i].stage =>
                 \E j \in 1..(i - 1) : calls[j].stage = t /\ calls[j].outcome = "returned"

\* a completed run whose stages argument is out of order and repeats a number
C8_Witness ==
    /\ IsPipeline
    /\ pc = "done"
    /\ outcome = "returned"
    /\ Len(calls) = 2
    /\ \E a \in 1..Len(stages) : \E b \in 1..Len(stages) :
          a < b /\ stages[a] > stages[b]
    /\ \E a \in 1..Len(stages) : \E b \in 1..Len(stages) :
          a # b /\ stages[a] = stages[b]

\* C9: when a stage call of run_full_pipeline raises, it is the last call of the
\* run, and the caller gets one PipelineError whose stage names that stage and
\* whose message is the message of the error the stage raised.
C9_FirstFailureTagged ==
    IsPipeline =>
        /\ \A i \in CallIdx :
              calls[i].outcome = "raised" =>
                 /\ i = Len(calls)
                 /\ pc = "done"
                 /\ outcome = "raised"
                 /\ exc.kind = "PipelineError"
                 /\ exc.stage = StageName(calls[i].stage)
                 /\ exc.message = calls[i].error
        /\ outcome = "raised" =>
              (calls # << >> /\ calls[Len(calls)].outcome = "raised")

\* the script stage failed with e2 after the info stage; the audio stage was
\* selected and not invoked
C9_Witness ==
    /\ IsPipeline
    /\ pc = "done"
    /\ 3 \in Selected
    /\ Len(calls) = 2
    /\ calls[2].stage = 2
    /\ calls[2].error = "e2"
    /\ exc.stage = "script generation"
    /\ exc.message = "e2"

\* C10: if a selected stage fails, run_full_pipeline returns nothing, not even
\* the paths of the stages that succeeded; the artifact of every stage that
\* returned is on disk.
C10_AllOrNothing ==
    IsPipeline =>
        /\ (\E i \in CallIdx : calls[i].outcome = "raised") =>
              (~ret.has /\ outcome # "returned")
        /\ \A i \in CallIdx :
              calls[i].outcome = "returned" => Artifact(calls[i].stage, Stem) \in disk

\* the audio stage failed after info and script returned: two artifacts on
\* disk, two paths collected, nothing returned
C10_Witness ==
    /\ IsPipeline
    /\ pc = "done"
    /\ outcome = "raised"
    /\ Len(calls) = 3
    /\ DOMAIN results = {"info", "script"}
    /\ {Artifact(1, Stem), Artifact(2, Stem)} \subseteq disk
    /\ ret = NoRet


\* ----------------------------------------------------------------------
\* Properties of the stage functions (StageSpec)
\* ----------------------------------------------------------------------
IsStageRun == fn \in {"info_retrieval.run", "script_gen.run", "audio_gen.run"}
IsRetriedCall == fn \in {"audio_gen.run", "_generate_audio_gemini"}
AttemptIdx == 1..Len(attempts)
\* an external call that did not deliver: it raised, or (audio) it carried no chunk
Failed(a) == a.error # "None" \/ (IsRetriedCall /\ a.chunks = 0)
\* the kind of the exception a failed call ends with
ErrorOf(a) == IF a.error # "None" THEN a.error ELSE "Exception"

\* C11: dry-run isolation.  In a call of info_retrieval.run, script_gen.run or
\* audio_gen.run with dry_run=True, in every state of every execution, no
\* external API call has been made, no try of the retried call was started and
\* no API credential was looked up.
C11_DryRunIsolation ==
    (IsStageRun /\ args.dry_run) =>
        /\ attempts = << >>
        /\ tries = 0
        /\ credChecks = 0

\* script_gen.run returned its artifact in dry_run with no credential set
C11_Witness ==
    /\ fn = "script_gen.run"
    /\ args.dry_run
    /\ ~env.credential
    /\ spc = "done"
    /\ returned = script_markdown_path(args.keyword, "outputs/script")
    /\ File(returned, "artifact", 0) \in written

\* C12: a batch run over a valid single-item track whose entry has an
\* output_name, a keyword and dry_run=true ends by returning: the three stages
\* were called in dry_run and returned, the artifacts named after output_name
\* are on disk, and the report has successful = 1 and failed = 0.  Stated for
\* the stage modules and path helpers of the repository.
C12_DryRunBatchCompletes ==
    ( /\ IsBatch
      /\ stage_impl = "repository"
      /\ validate_track_config(track_config) = "ok"
      /\ Len(track_config.files) = 1
      /\ Get(track_config.files[1].kv, "dry_run", FALSE)
      /\ pc = "done" )
    => /\ outcome = "returned"
       /\ Len(calls) = 3
       /\ \A i \in CallIdx : calls[i].dry_run /\ calls[i].outcome = "returned"
       /\ \A s \in StageNums :
             Artifact(s, track_config.files[1].kv["output_name"]) \in disk
       /\ report.successful = 1
       /\ report.failed = 0

\* C13: retry bound of the audio call.  The retried call is never tried more
\* than max_retries times; a failed try that is not the max_retries-th is
\* followed by another try whatever exception it raised; and when every try
\* has failed the function ends after exactly max_retries tries with an
\* Exception whose cause is the error of the last try.
C13_RetryBound ==
    IsRetriedCall =>
        /\ Len(attempts) <= args.max_retries
        /\ tries = Len(attempts)
        /\ spc = "done" =>
              \A i \in AttemptIdx :
                  (Failed(attempts[i]) /\ i < args.max_retries) => i < Len(attempts)
        /\ (spc = "done" /\ attempts # << >>
                /\ \A i \in AttemptIdx : Failed(attempts[i])) =>
              /\ Len(attempts) = args.max_retries
              /\ raised.kind = "Exception"
              /\ raised.message = "Gemini TTS failed"
              /\ raised.cause = ErrorOf(attempts[Len(attempts)])

\* three tries failed with two different exceptions, and the call gave up
C13_Witness ==
    /\ fn = "_generate_audio_gemini"
    /\ args.max_retries = 3
    /\ spc = "done"
    /\ Len(attempts) = 3
    /\ attempts[1].error = "RateLimitError"
    /\ attempts[2].error = "ServerError"
    /\ attempts[3].error = "RateLimitError"
    /\ raised = Raised("Exception", "Gemini TTS failed", "RateLimitError")

\* the artifact files the function has written at the audio output path
AudioArtifacts == {f \in written : f.kind = "artifact" /\ f.path = OutputPath}

\* C14: a call of audio_gen.run that finds no script artifact ends with a
\* missing-upstream error (FileNotFoundError) having made no external call and
\* written nothing at the audio path; and a call of script_gen.run in
\* production mode that finds no info artifact ends with a FileNotFoundError
\* having made no external call.
C14_MissingUpstream ==
    /\ ( /\ fn = "audio_gen.run"
         /\ stage_impl = "repository"
         /\ env.upstream = "absent"
         /\ spc = "done" )
       => /\ raised.kind = "FileNotFoundError"
          /\ attempts = << >>
          /\ AudioArtifacts = {}
    /\ ( /\ fn = "script_gen.run"
         /\ ~args.dry_run
         /\ env.upstream = "absent"
         /\ spc = "done" )
       => /\ raised.kind = "FileNotFoundError"
          /\ attempts = << >>

\* C15: the credential check precedes the external call.  In production mode
\* with the API key absent no external call and no try is ever made and
\* nothing is waited for; a call that ends, ends with an exception; the first
\* lookup of the key ends the call at once with a ValueError.  And whenever an
\* external call has been made, the key had been looked up and was present.
C15_CredentialBeforeCall ==
    /\ (fn # "path_helper" /\ ~args.dry_run /\ ~env.credential) =>
          /\ attempts = << >>
          /\ tries = 0
          /\ waits = << >>
          /\ spc = "done" => raised.kind # "None"
          /\ credChecks <= 1
          /\ credChecks = 1 => (spc = "done" /\ raised.kind = "ValueError")
    /\ attempts # << >> => (credChecks = 1 /\ env.credential)

\* info_retrieval.run in production mode without a key: ValueError, no call
C15_Witness ==
    /\ fn = "info_retrieval.run"
    /\ ~args.dry_run
    /\ ~env.credential
    /\ spc = "done"
    /\ credChecks = 1
    /\ raised.kind = "ValueError"
    /\ attempts = << >>

\* the suffix a path helper appends to the sanitized keyword
SuffixOf(s) == CASE s = 1 -> MdSuffix [] s = 2 -> ScriptSuffix [] s = 3 -> Mp3Suffix
\* k without the characters that are removed from file names
WithoutInvalid(k) == SelectSeq(k, LAMBDA c : c \notin INVALID_FILENAME_CHARS)
AllBlank(str) == \A i \in 1..Len(str) : str[i] = " "
\* stem is k with nothing but blanks cut off at its two ends
OnlyOuterBlanksCut(k, stem) ==
    \E i \in 1..(Len(k) + 1) : \E j \in 0..Len(k) :
        /\ stem = SubSeq(k, i, j)
        /\ AllBlank(SubSeq(k, 1, i - 1))
        /\ AllBlank(SubSeq(k, j + 1, Len(k)))

\* C16: path resolution is deterministic and safe.  Every path a helper has
\* resolved for keyword k and directory d equals the first one resolved for
\* them, lies in d, has a file name without any of < > : " / \ | ? *, and its
\* file name is, before the stage's suffix, the keyword without the removed
\* characters and with every blank between two kept characters in place (only
\* blanks at the two ends are cut).
C16_PathDeterministicAndSafe ==
    fn = "path_helper" =>
        \A i \in 1..Len(paths) :
            /\ paths[i] = paths[1]
            /\ paths[i].dir = args.base_dir
            /\ Range(paths[i].name) \cap INVALID_FILENAME_CHARS = {}
            /\ \E stem \in Keywords :
                  /\ paths[i].name = stem \o SuffixOf(args.helper)
                  /\ OnlyOuterBlanksCut(WithoutInvalid(args.keyword), stem)

\* the script path of "a /a" was resolved twice
C16_Witness ==
    /\ fn = "path_helper"
    /\ args.helper = 2
    /\ args.keyword = << "a", " ", "/", "a" >>
    /\ Len(paths) = 2
    /\ paths[2].name = << "a", " ", "a" >> \o ScriptSuffix

\* the function ended because its external call failed
EndedOnCallFailure ==
    /\ spc = "done"
    /\ attempts # << >>
    /\ Failed(attempts[Len(attempts)])

WaitIdx == 1..Len(waits)

\* C18 (as claimed): within one retried audio call the waits actually slept
\* between consecutive tries are non-decreasing, and none exceeds max_wait.
C18_WaitsNonDecreasing ==
    IsRetriedCall =>
        /\ \A i \in WaitIdx : \A j \in WaitIdx :
              i < j => waits[i].seconds <= waits[j].seconds
        /\ \A i \in WaitIdx : waits[i].seconds <= args.max_wait

\* C18 (amended): the delay computed before the jitter is non-decreasing from
\* one wait to the next and never exceeds max_wait; the wait actually slept is
\* drawn between 0 and that delay, so it never exceeds max_wait either (but may
\* be shorter than an earlier wait).
C18_WaitsBoundedByCappedDelay ==
    IsRetriedCall =>
        /\ \A i \in WaitIdx : \A j \in WaitIdx :
              i < j => waits[i].value <= waits[j].value
        /\ \A i \in WaitIdx :
              /\ waits[i].value <= args.max_wait
              /\ 0 <= waits[i].seconds
              /\ waits[i].seconds <= waits[i].value

\* the second wait was shorter than the first, and the delay reached the cap
C18_Witness ==
    /\ fn = "_generate_audio_gemini"
    /\ args.max_wait = 2
    /\ Len(waits) = 2
    /\ waits[1] = [value |-> 1, seconds |-> 1]
    /\ waits[2] = [value |-> 2, seconds |-> 0]

\* C19: the backoff schedule of the audio call starts from the caller's
\* initial_wait: when initial_wait does not exceed the cap max_wait, the delay
\* computed (before jitter) for the first retry is initial_wait.
C19_InitialWaitSetsFirstDelay ==
    (IsRetriedCall /\ waits # << >> /\ args.initial_wait <= args.max_wait) =>
        waits[1].value = args.initial_wait

\* the try that has just ended, or ended last, got a response without audio
LastWasEmpty ==
    /\ attempts # << >>
    /\ attempts[Len(attempts)] = Attempt("None", 0)

\* C20: an empty audio response is a failed try.  A streaming call that ends
\* with no chunk of inline data writes nothing (every audio artifact written in
\* production mode holds at least one chunk), the try counts as failed (it is
\* retried or, as the last try, ends the call with an Exception), and the call
\* never ends in success on an empty response.
C20_EmptyResponseIsFailure ==
    (IsRetriedCall /\ ~args.dry_run) =>
        /\ \A f \in AudioArtifacts : f.chunks > 0
        /\ AudioArtifacts # {} => \E i \in AttemptIdx : attempts[i].chunks > 0
        /\ LastWasEmpty =>
              \/ spc = "gen_except" /\ raised.kind = "Exception"
              \/ spc = "gen_call" /\ Len(waits) = Len(attempts)
              \/ spc = "done" /\ raised.kind = "Exception" /\ raised.cause = "Exception"
        /\ (spc \in {"audio_meta", "done"} /\ raised.kind = "None" /\ tries > 0) =>
              attempts[Len(attempts)].chunks > 0

\* the only try got an empty response: the call failed and wrote nothing
C20_Witness ==
    /\ fn = "_generate_audio_gemini"
    /\ args.max_retries = 1
    /\ spc = "done"
    /\ attempts = << Attempt("None", 0) >>
    /\ raised = Raised("Exception", "Gemini TTS failed", "Exception")
    /\ written = {}

\* C21: an empty audio response is terminal, not transient.  A try that ends
\* with no chunk of inline data is the last try of the call: no wait is slept
\* after it and no further try follows it.
C21_EmptyResponseIsTerminal ==
    IsRetriedCall =>
        /\ \A i \in AttemptIdx :
              attempts[i] = Attempt("None", 0) => i = Len(attempts)
        /\ LastWasEmpty => Len(waits) < Len(attempts)

\* C22: an empty upstream artifact is treated like an absent one.  When
\* script_gen.run or audio_gen.run is run in production mode and the file it
\* reads from the previous stage exists but holds nothing but blanks, no
\* external call is attempted, nothing is written, and the stage ends by
\* raising.
C22_EmptyUpstreamFails ==
    (fn \in {"script_gen.run", "audio_gen.run"} /\ ~args.dry_run
        /\ env.upstream = "empty") =>
        /\ attempts = << >>
        /\ written = {}
        /\ spc = "done" => raised.kind # "None"

\* C23: the upstream check precedes the dry_run branch.  When script_gen.run or
\* audio_gen.run is run with dry_run = TRUE and the previous stage's artifact
\* is absent, no placeholder artifact is written and the stage ends by
\* raising; it never returns a path.
C23_UpstreamCheckBeforeDryRun ==
    (fn \in {"script_gen.run", "audio_gen.run"} /\ args.dry_run
        /\ env.upstream = "absent") =>
        /\ written = {}
        /\ returned = NoPath
        /\ spc = "done" => raised.kind # "None"

\* C24: stage handoff agreement.  For one keyword and one dry_run flag, with
\* the directories left to their defaults as run_full_pipeline leaves them,
\* the info file script_gen.run looks for is the file info_retrieval.run
\* writes, and the script file audio_gen.run reads is the file script_gen.run
\* writes.
C24_HandoffAgreement ==
    /\ (fn = "script_gen.run" /\ Len(paths) = 2) =>
          paths[1] = info_markdown_path(strip(args.keyword), InfoDir(args.dry_run))
    /\ (fn = "audio_gen.run" /\ Len(paths) = 2) =>
          paths[1] = script_markdown_path(args.keyword, "outputs/script")

\* C25: a failure to write the metadata sidecar never fails a stage.  Once
\* info_retrieval.run or audio_gen.run has written its artifact, the run ends
\* by returning the artifact's path and raising nothing, whether or not the
\* sidecar file was written.
C25_MetadataFailureSuppressed ==
    (fn \in {"info_retrieval.run", "audio_gen.run"} /\ spc = "done") =>
        \A f \in written : f.kind = "artifact" =>
            /\ returned = f.path
            /\ raised = NoRaise

\* a stage ended with its artifact on disk and no sidecar next to it (the
\* write of the sidecar failed), and returned the artifact's path
C25_Witness ==
    /\ fn \in {"info_retrieval.run", "audio_gen.run"}
    /\ spc = "done"
    /\ \E f \in written :
          /\ f.kind = "artifact"
          /\ File(f.path, "metadata", 0) \notin written
          /\ returned = f.path
    /\ raised = NoRaise

\* voice names the audio module's help text lists, and the model names its
\* command line accepts
KnownVoices == {"Zephyr", "Puck", "Charon", "Kore", "Fenrir", "Aoede", "Leda"}
KnownTtsModels == {"gemini-2.5-pro-preview-tts", "gemini-2.5-flash-preview-tts"}

\* C26: an unknown voice or model is rejected before any external call.  When
\* audio_gen.run (production mode) or _generate_audio_gemini is given a voice
\* or a model outside the known names, no call to the provider is attempted
\* and the function ends by raising.
C26_InvalidParameterRejected ==
    (IsRetriedCall /\ ~args.dry_run
        /\ (args.voice \notin KnownVoices \/ args.model \notin KnownTtsModels)) =>
        /\ attempts = << >>
        /\ spc = "done" => raised.kind # "None"

Terminal == {"success", "failed"}

\* C27: lifecycle of the record run_single_file builds.  The record is created
\* with status pending; from pending its status only goes to success or to
\* failed; once it is success or failed the record is never changed again (it
\* only goes away when run_single_file is left), nor is any record already
\* appended to the results; a success record has an audio_path and a
\* completed_at, a failed record has an error and a completed_at.
C27_RecordLifecycle ==
    [][ /\ (result.status = "None" /\ result'.status # "None") =>
               result'.status = "pending"
        /\ result.status = "pending" =>
               result'.status \in {"pending"} \cup Terminal
        /\ result.status \in Terminal => result' \in {result, NoRecord}
        /\ result'.status = "success" =>
               /\ result'.audio_path # << >>
               /\ result'.completed_at # "None"
        /\ result'.status = "failed" =>
               /\ result'.error # "None"
               /\ result'.completed_at # "None"
        /\ result'.status = "pending" =>
               /\ result'.audio_path = << >>
               /\ result'.completed_at = "None"
        /\ IsBatch => \A i \in 1..Len(results) :
               /\ i <= Len(results')
               /\ results'[i] = results[i]
               /\ results[i].status \in Terminal
      ]_vars

\* a first item ended as a success record, now in the results, and the second
\* item's record has just been marked failed
C27_Witness ==
    /\ IsBatch
    /\ pc = "single_raise"
    /\ Len(results) = 1
    /\ results[1].status = "success"
    /\ results[1].audio_path # << >>
    /\ result.status = "failed"
    /\ result.error # "None"
    /\ result.completed_at = "set"

\* C28: every batch report is consistent.  In each report generate_batch_report
\* has written, total_files equals successful + failed and equals the length
\* of the report's files list, and no record of that list is pending.
C28_ReportCountsAgree ==
    (IsBatch /\ reportWrites > 0) =>
        /\ report.total_files = report.successful + report.failed
        /\ report.total_files = Len(report.files)
        /\ \A i \in 1..Len(report.files) : report.files[i].status \in Terminal

\* the partial report of a run aborted at its second item: one record, a
\* success, while the configured list is longer
C28_Witness ==
    /\ IsBatch
    /\ outcome = "raised"
    /\ reportWrites = 1
    /\ Len(files) >= 2
    /\ report.total_files = 1
    /\ report.successful = 1
    /\ Len(report.files) = 1

\* C29: a failed external call leaves the artifact path untouched.  In
\* production mode a stage function writes a file only after an external call
\* that succeeded: while no call has succeeded nothing has been written, and a
\* run that ended because its call failed (for the audio call: its last try)
\* has written nothing at all.
C29_FailedCallWritesNothing ==
    /\ (fn \in StageFns \ {"path_helper"} /\ ~args.dry_run /\ written # {}) =>
          \E i \in AttemptIdx : ~Failed(attempts[i])
    /\ EndedOnCallFailure => written = {}

\* the audio call failed on each of its two tries, once by an API error and
\* once by an empty response, and was given up with nothing written
C29_Witness ==
    /\ fn = "_generate_audio_gemini"
    /\ args.max_retries = 2
    /\ spc = "done"
    /\ attempts = << Attempt("ServerError", 0), Attempt("None", 0) >>
    /\ raised.message = "Gemini TTS failed"
    /\ written = {}

\* ======================================================================
\* Termination of a batch run (TerminationSpec)
\* ======================================================================
\* A behaviour is one call of run_batch, each stage call of which returns or
\* raises, or one call of the audio function it calls, each external try of
\* which returns or raises.  The program is single-threaded and never waits
\* for anything but these calls and time.sleep, so it always takes its next
\* step: weak fairness of the next-state relation.
TerminationInit ==
    \/ Init /\ entry = "run_batch"
    \/ StageInit /\ fn \in {"audio_gen.run", "_generate_audio_gemini"}

TerminationNext ==
    \/ RunBatchEnter
    \/ RunBatchMkdirs
    \/ RunBatchLoop
    \/ RunSingleFileEnter
    \/ BatchStageInvoke
    \/ BatchStageReturn
    \/ BatchStageRaise
    \/ RunSingleFileRaise
    \/ RunBatchAppend
    \/ RunBatchExcept
    \/ RunBatchReraise
    \/ RunBatchFinalReport
    \/ RunBatchReturn
    \/ AudioRunEnter
    \/ ReadScript
    \/ AudioDryRun
    \/ GenerateAudioCheckKey
    \/ GenerateAudioClient
    \/ CallApiWithBackoff
    \/ BackoffGiveUp
    \/ BackoffWait
    \/ AudioRunReturn

TerminationSpec == TerminationInit /\ [][TerminationNext]_vars /\ WF_vars(TerminationNext)

\* the states of a batch run
NotStarted == entry = "run_batch" /\ pc = "run_batch"
Completed == entry = "run_batch" /\ pc = "done" /\ outcome = "returned"
Aborted == entry = "run_batch" /\ pc = "done" /\ outcome = "raised"
Running == entry = "run_batch" /\ pc \notin {"run_batch", "done"}

\* C30: a batch run goes NotStarted -> Running -> (Completed | Aborted) and
\* terminates.  Every call of run_batch eventually has returned its summary or
\* raised, and stays so; every audio call it may make eventually ends, after
\* at most max_retries tries; a run that returned has raised nothing and a run
\* that raised has returned nothing; a run never goes back to NotStarted, and
\* once Completed or Aborted it never changes again.
C30_BatchRunTerminates ==
    /\ <>[](Completed \/ Aborted \/ (entry = "stage" /\ spc = "done"))
    /\ [](entry = "run_batch" =>
            /\ NotStarted \/ Running \/ Completed \/ Aborted
            /\ outcome = "none" <=> (NotStarted \/ Running)
            /\ Completed => ret.has /\ exc = NoExc
            /\ Aborted => ~ret.has /\ exc # NoExc
            /\ (NotStarted \/ Running) => ~ret.has)
    /\ [](entry = "stage" => tries <= args.max_retries)
    /\ [][ /\ ~NotStarted => ~NotStarted'
           /\ (Completed \/ Aborted) => UNCHANGED vars ]_vars

\* a run over two files ended Completed, with both items successful
C30_Witness ==
    /\ Completed
    /\ Len(files) = 2
    /\ ret.total = 2
    /\ ret.successful = 2
    /\ reportWrites = 1
====
